---------------------------- MODULE Spec2Model ----------------------------
(* A model of blocklistdownloadthing (src/src/main.rs): one run of main,    *)
(* from the deserialisation of the configuration to the process's exit.     *)
(* Strings are sequences of one-character strings, so that the parser, the  *)
(* Host validation and the cache file name are computed character by        *)
(* character, as the code computes them.                                    *)
EXTENDS Integers, Sequences, FiniteSets, TLC

VARIABLES
  raw_whitelist,   \* the configuration file's host_whitelist strings, before Host::deserialize
  raw_blacklist,   \* the configuration file's host_blacklist strings, before Host::deserialize
  blocklists,      \* Config.blocklists: the set of source URLs
  remote,          \* what the network answers for each source: a body, or a failure
  cache,           \* the cache directory: file name -> content, of the files that exist
  cache0,          \* the cache directory as the run found it
  host_whitelist,  \* Config.host_whitelist, once loaded
  merged,          \* main's merged: BTreeSet<Host>
  failed,          \* main's failed flag
  todo,            \* the sources the for loop has still to visit, in BTreeSet order
  hosts,           \* main's hosts: the text of the source being processed
  pc,              \* where main is
  output,          \* what write_to wrote: the hosts, or NotWritten
  log              \* the calls made so far: fetch, insert, get, parse

vars == <<raw_whitelist, raw_blacklist, blocklists, remote, cache, cache0,
          host_whitelist, merged, failed, todo, hosts, pc, output, log>>

-----------------------------------------------------------------------------
(* Characters and strings *)

\* char::is_whitespace and the regex class \s, over the model's alphabet
IsWhitespace(c) == c \in {" ", "\t", "\n", "\r"}

Digits == {"0", "1", "2", "3", "4", "5", "6", "7", "8", "9"}

DigitVal(c) ==
  CASE c = "0" -> 0 [] c = "1" -> 1 [] c = "2" -> 2 [] c = "3" -> 3 [] c = "4" -> 4
    [] c = "5" -> 5 [] c = "6" -> 6 [] c = "7" -> 7 [] c = "8" -> 8 [] c = "9" -> 9
    [] c = "a" -> 10 [] c = "b" -> 11 [] c = "c" -> 12 [] c = "d" -> 13
    [] c = "e" -> 14 [] c = "f" -> 15

HexDigits == Digits \cup {"a", "b", "c", "d", "e", "f"}

Range(s) == {s[i] : i \in 1..Len(s)}

\* the strings: sequences of characters
Str == Seq(STRING)

\* the value of the digit string s in the given radix, acc being the value so far
NumVal[s \in Str, radix \in Nat, acc \in Nat] ==
  IF s = <<>> THEN acc ELSE NumVal[Tail(s), radix, acc * radix + DigitVal(Head(s))]

\* s cut at every '.'; cur is the piece being read
SplitDots[s \in Str, cur \in Str] ==
  IF s = <<>> THEN <<cur>>
  ELSE IF Head(s) = "." THEN <<cur>> \o SplitDots[Tail(s), <<>>]
  ELSE SplitDots[Tail(s), Append(cur, Head(s))]

-----------------------------------------------------------------------------
(* Host *)

Result(kind, text) == [kind |-> kind, text |-> text]

HostHasNoBadChar(value) ==
  \A i \in 1..Len(value) : ~IsWhitespace(value[i]) /\ value[i] # "/"

\* a Host::try_from that forgets the '"' check
try_from_no_quote(value) ==
  IF value = <<>> \/ ~HostHasNoBadChar(value)
  THEN Result("invalid_host", value)
  ELSE Result("host", value)

\* impl TryFrom<String> for Host
try_from(value) ==
  IF value = <<>>
     \/ \E i \in 1..Len(value) :
          IsWhitespace(value[i]) \/ value[i] = "/" \/ value[i] = "\""
  THEN Result("invalid_host", value)
  ELSE Result("host", value)

-----------------------------------------------------------------------------
(* IpAddr::from_str, is_unspecified, is_loopback *)

\* one part of a dotted quad: one to three digits, no leading zero, at most
\* 255; -1 when the part is no such number
Octet[part \in Str] ==
  IF /\ Len(part) \in 1..3
     /\ Range(part) \subseteq Digits
     /\ (Len(part) > 1 => part[1] # "0")
     /\ NumVal[part, 10, 0] <= 255
  THEN NumVal[part, 10, 0]
  ELSE -1

\* the address of the parts of a dotted quad; -1 when they are not four octets
QuadVal[parts \in Seq(Str)] ==
  IF Len(parts) = 4 /\ \A i \in 1..4 : Octet[parts[i]] >= 0
  THEN ((Octet[parts[1]] * 256 + Octet[parts[2]]) * 256 + Octet[parts[3]]) * 256
       + Octet[parts[4]]
  ELSE -1

\* Ipv4Addr::from_str: four decimal octets; -1 when the text is no IPv4 address
Ipv4Val[tok \in Str] == QuadVal[SplitDots[tok, <<>>]]

\* Ipv6Addr::from_str for the addresses written "::", "::<hex group>" and
\* "::<ipv4>"; -1 for every other text. Over the model's alphabet, where a
\* colon only ever comes as "::", these are all the texts the parser accepts.
Ipv6Val[tok \in Str] ==
  IF Len(tok) < 2 \/ tok[1] # ":" \/ tok[2] # ":" THEN -1
  ELSE LET rest == SubSeq(tok, 3, Len(tok)) IN
       IF rest = <<>> THEN 0
       ELSE IF Len(rest) <= 4 /\ Range(rest) \subseteq HexDigits THEN NumVal[rest, 16, 0]
       ELSE Ipv4Val[rest]

IpNone == [ok |-> FALSE, unspecified |-> FALSE, loopback |-> FALSE]

\* str::parse::<IpAddr> with IpAddr::is_unspecified and IpAddr::is_loopback
ParseIp[tok \in Str] ==
  IF Ipv4Val[tok] >= 0
  THEN [ok |-> TRUE, unspecified |-> Ipv4Val[tok] = 0,
        loopback |-> Octet[SplitDots[tok, <<>>][1]] = 127]
  ELSE IF Ipv6Val[tok] >= 0
  THEN [ok |-> TRUE, unspecified |-> Ipv6Val[tok] = 0, loopback |-> Ipv6Val[tok] = 1]
  ELSE IpNone

-----------------------------------------------------------------------------
(* parse_blocklist *)

\* str::lines: cut at "\n", a "\r" before it dropped, no line after a final
\* "\n"; cur is the line being read
SplitLines[text \in Str, cur \in Str] ==
  IF text = <<>> THEN (IF cur = <<>> THEN <<>> ELSE <<cur>>)
  ELSE IF Head(text) = "\n"
  THEN <<IF cur # <<>> /\ cur[Len(cur)] = "\r" THEN SubSeq(cur, 1, Len(cur) - 1) ELSE cur>>
       \o SplitLines[Tail(text), <<>>]
  ELSE SplitLines[Tail(text), Append(cur, Head(text))]

\* str::lines
lines(text) == SplitLines[text, <<>>]

\* COMMENT_REGEX.replace(line, ""): "#.*" matches from the first '#' to the end
StripComment[line \in Str] ==
  IF line = <<>> \/ Head(line) = "#" THEN <<>>
  ELSE <<Head(line)>> \o StripComment[Tail(line)]

\* the position after the longest run of \s that starts at p
SkipWs[line \in Str, p \in Nat] ==
  IF p <= Len(line) /\ IsWhitespace(line[p]) THEN SkipWs[line, p + 1] ELSE p

\* the position after the longest run of \S that starts at p
SkipNonWs[line \in Str, p \in Nat] ==
  IF p <= Len(line) /\ ~IsWhitespace(line[p]) THEN SkipNonWs[line, p + 1] ELSE p

NoCaptures == [matched |-> FALSE, has_ip |-> FALSE, ip |-> <<>>, host |-> <<>>]

\* HOST_REGEX.captures(line), HOST_REGEX being ^\s*((?P<ip>\S+)\s+)?(?P<host>\S+)\s*$
HostRegexCaptures[line \in Str] ==
  LET a == SkipWs[line, 1]
      b == SkipNonWs[line, a]
      c == SkipWs[line, b]
      d == SkipNonWs[line, c]
      e == SkipWs[line, d]
  IN IF b = a THEN NoCaptures
     ELSE IF c > Len(line)
     THEN [matched |-> TRUE, has_ip |-> FALSE, ip |-> <<>>,
           host |-> SubSeq(line, a, b - 1)]
     ELSE IF c > b /\ d > c /\ e > Len(line)
     THEN [matched |-> TRUE, has_ip |-> TRUE, ip |-> SubSeq(line, a, b - 1),
           host |-> SubSeq(line, c, d - 1)]
     ELSE NoCaptures

\* the closure of parse_blocklist's filter_map with the loopback arm taken
\* for the unspecified address too
ParseLineLoopbackFirst(line) ==
  LET captures == HostRegexCaptures[line] IN
  IF ~captures.matched THEN <<Result("no_match", line)>>
  ELSE IF ~captures.has_ip THEN <<try_from(captures.host)>>
  ELSE LET ip == ParseIp[captures.ip] IN
       IF ~ip.ok THEN <<Result("malformed_ip", captures.ip)>>
       ELSE IF ip.loopback \/ ip.unspecified THEN <<>>
       ELSE <<Result("suspicious_ip", captures.ip)>>

\* the closure of parse_blocklist's filter_map: what one retained line yields,
\* a sequence of no or one result
ParseLine(line) ==
  LET captures == HostRegexCaptures[line] IN
  IF ~captures.matched THEN <<Result("no_match", line)>>
  ELSE IF ~captures.has_ip THEN <<try_from(captures.host)>>
  ELSE LET ip == ParseIp[captures.ip] IN
       IF ip.ok /\ ip.unspecified THEN <<try_from(captures.host)>>
       ELSE IF ip.ok /\ ip.loopback THEN <<>>
       ELSE IF ~ip.ok THEN <<Result("malformed_ip", captures.ip)>>
       ELSE <<Result("suspicious_ip", captures.ip)>>

\* parse_blocklist's filter: the comment-stripped line is kept unless it is
\* empty or all whitespace
Retained(line) == line # <<>> /\ \E i \in 1..Len(line) : ~IsWhitespace(line[i])

\* parse_blocklist's filter and filter_map over one comment-stripped line
OfStripped[line \in Str] == IF Retained(line) THEN ParseLine(line) ELSE <<>>

\* parse_blocklist's map, filter and filter_map over one line
OfLine[rawline \in Str] == OfStripped[StripComment[rawline]]

\* the results of the lines ls, one after the other
OfLines[ls \in Seq(Str)] ==
  IF ls = <<>> THEN <<>> ELSE OfLine[Head(ls)] \o OfLines[Tail(ls)]

\* parse_blocklist: the results the iterator yields, in order
parse_blocklist(blocklist) == OfLines[lines(blocklist)]

-----------------------------------------------------------------------------
(* Url ordering and the cache *)

CharCode(c) ==
  CASE c = "/" -> 47 [] c = ":" -> 58 [] c = "_" -> 95 [] c = "a" -> 97
    [] c = "b" -> 98 [] c = "c" -> 99 [] c = "h" -> 104 [] c = "p" -> 112
    [] c = "t" -> 116

\* Ord for Url: the order of the serialisations, byte by byte
StrLess[s \in Str, t \in Str] ==
  IF t = <<>> THEN FALSE
  ELSE IF s = <<>> THEN TRUE
  ELSE IF Head(s) # Head(t) THEN CharCode(Head(s)) < CharCode(Head(t))
  ELSE StrLess[Tail(s), Tail(t)]

\* the least of a non-empty set of URLs
First(S) == CHOOSE m \in S : \A o \in S \ {m} : StrLess[m, o]

\* BTreeSet<Url>::into_iter: the elements in ascending order
InOrder[S \in SUBSET Str] ==
  IF S = {} THEN <<>> ELSE <<First(S)>> \o InOrder[S \ {First(S)}]

\* Cache::cache_path: the file name, url.as_str().replace('/', "_")
cache_path(url) == [i \in 1..Len(url) |-> IF url[i] = "/" THEN "_" ELSE url[i]]

\* a Cache::insert whose write stops one character short (write for write_all)
insert_short(files, url, content, wrote) ==
  IF wrote
  THEN [f \in DOMAIN files \cup {cache_path(url)} |->
          IF f = cache_path(url) THEN SubSeq(content, 1, Len(content) - 1) ELSE files[f]]
  ELSE files

\* Cache::insert: the file is written whole or, when the write fails, not at all
insert(files, url, content, wrote) ==
  IF wrote
  THEN [f \in DOMAIN files \cup {cache_path(url)} |->
          IF f = cache_path(url) THEN content ELSE files[f]]
  ELSE files

\* Cache::get: Ok(Some(content)), Ok(None) when there is no such file, Err
\* when the file system fails otherwise
get(files, url, readable) ==
  IF ~readable THEN [res |-> "err", text |-> <<>>]
  ELSE IF cache_path(url) \in DOMAIN files
  THEN [res |-> "some", text |-> files[cache_path(url)]]
  ELSE [res |-> "none", text |-> <<>>]

\* fetch_blocklist: the body, or an error (no answer, a status that is not ok)
fetch_blocklist(url) == remote[url]

-----------------------------------------------------------------------------
(* main's loop body *)

\* the for loop over parse_blocklist's results with the whitelist test dropped
MergeHostsUnfiltered(m, whitelist, ys) ==
  m \cup {ys[i].text : i \in {j \in 1..Len(ys) : ys[j].kind = "host"}}

\* the for loop over parse_blocklist's results with the whitelist test negated
MergeHostsInverted(m, whitelist, ys) ==
  m \cup {ys[i].text :
            i \in {j \in 1..Len(ys) : ys[j].kind = "host" /\ ys[j].text \in whitelist}}

\* the for loop over parse_blocklist's results: the hosts it inserts
MergeHosts(m, whitelist, ys) ==
  m \cup {ys[i].text :
            i \in {j \in 1..Len(ys) : ys[j].kind = "host" /\ ys[j].text \notin whitelist}}

\* the for loop over parse_blocklist's results: whether it sets failed
HasParseError(ys) == \E i \in 1..Len(ys) : ys[i].kind # "host"

\* a failed Cache::insert counted as a failure of the run
FailedSetByInsertError(f, wrote) == f \/ ~wrote

\* failed after the Ok arm: Cache::insert's error is logged with warn! and
\* nothing else
FailedAfterInsert(f, wrote) == f

\* failed set only when the cache has no text to fall back on
FailedUnlessCached(f, res) == f \/ res # "some"

\* failed after the Err arm: set before the cache is asked, whatever it returns
FailedAfterFetchError(f, res) == TRUE

\* a source without text ends the run: main returns the fetch error
AbortOnCacheMiss == "fetch_error"

\* where main goes when the fetch failed and Cache::get gave no text:
\* continue, to the head of the loop
AfterCacheMiss == "loop"

Entry(op, url, res, text, yielded) ==
  [op |-> op, url |-> url, res |-> res, text |-> text, yielded |-> yielded]

-----------------------------------------------------------------------------
(* The inputs of a run *)

Str_x == <<"x">>
Str_w == <<"w">>
Str_y == <<"y">>
Str_z == <<"z">>
Str_bad == <<"b", " ", "d">>

Ip_unspecified == <<"0", ".", "0", ".", "0", ".", "0">>
Ip_loopback == <<"1", "2", "7", ".", "0", ".", "0", ".", "1">>
Ip_other == <<"1", "0", ".", "0", ".", "0", ".", "1">>

Http == <<"h", "t", "t", "p", ":", "/", "/", "h", "/">>
Url_a_slash_b == Http \o <<"a", "/", "b">>
Url_a_under_b == Http \o <<"a", "_", "b">>
Url_c == Http \o <<"c">>
Urls == {Url_a_slash_b, Url_a_under_b, Url_c}

\* "x\n0.0.0.0 y\n"
Text_xy == Str_x \o <<"\n">> \o Ip_unspecified \o <<" ">> \o Str_y \o <<"\n">>
\* "127.0.0.1 z\r\ny # c\n10.0.0.1 x"
Text_err == Ip_loopback \o <<" ">> \o Str_z \o <<"\r", "\n">> \o Str_y
            \o <<" ", "#", " ", "c", "\n">> \o Ip_other \o <<" ">> \o Str_x
\* "z\nx # old\n"
Text_z == Str_z \o <<"\n">> \o Str_x \o <<" ", "#", " ", "o", "l", "d", "\n">>

RunTexts == {Text_xy, Text_err}
CacheTexts == {Text_z}

Ok(text) == [ok |-> TRUE, text |-> text]
Err == [ok |-> FALSE, text |-> <<>>]

MaxSources == 2

NotWritten == [written |-> FALSE, hosts |-> {}]

Files(us) == {cache_path(u) : u \in us}

\* the directories a run may find: any of the sources' files, each with a
\* text an earlier run stored
CacheDirs(us) ==
  UNION {[fs -> CacheTexts] : fs \in SUBSET Files(us)}

Start ==
  /\ cache = cache0
  /\ host_whitelist = {}
  /\ merged = {}
  /\ failed = FALSE
  /\ todo = <<>>
  /\ hosts = <<>>
  /\ pc = "config"
  /\ output = NotWritten
  /\ log = <<>>

Init ==
  /\ raw_whitelist \in SUBSET {Str_x, Str_w, Str_bad}
  /\ raw_blacklist \in SUBSET {Str_x, Str_w}
  /\ blocklists \in {us \in SUBSET Urls : Cardinality(us) <= MaxSources}
  /\ remote \in [blocklists -> {Err} \cup {Ok(t) : t \in RunTexts}]
  /\ cache0 \in CacheDirs(blocklists)
  /\ Start

-----------------------------------------------------------------------------
(* main *)

\* serde_json::from_str::<Config>: every host string goes through
\* Host::deserialize, and one invalid string fails the whole load
LoadConfig ==
  /\ pc = "config"
  /\ IF \A s \in raw_whitelist \cup raw_blacklist : try_from(s).kind = "host"
     THEN /\ host_whitelist' = {try_from(s).text : s \in raw_whitelist}
          /\ merged' = {try_from(s).text : s \in raw_blacklist}
          /\ todo' = InOrder[blocklists]
          /\ pc' = "loop"
     ELSE /\ pc' = "config_error"
          /\ UNCHANGED <<host_whitelist, merged, todo>>
  /\ failed' = FALSE
  /\ UNCHANGED <<raw_whitelist, raw_blacklist, blocklists, remote, cache, cache0,
                 hosts, output, log>>

\* the Ok arm of the match on fetch_blocklist: the text is stored in the
\* cache, a failure to store it is only logged, and the text is parsed next
FetchOk ==
  /\ pc = "loop"
  /\ todo # <<>>
  /\ fetch_blocklist(Head(todo)).ok
  /\ \E wrote \in BOOLEAN :
       LET url == Head(todo)
           text == fetch_blocklist(url).text
       IN /\ cache' = insert(cache, url, text, wrote)
          /\ failed' = FailedAfterInsert(failed, wrote)
          /\ hosts' = text
          /\ log' = log \o <<Entry("fetch", url, "ok", text, <<>>),
                            Entry("insert", url, IF wrote THEN "ok" ELSE "err", text, <<>>)>>
  /\ pc' = "parse"
  /\ UNCHANGED <<raw_whitelist, raw_blacklist, blocklists, remote, cache0,
                 host_whitelist, merged, todo, output>>

\* the Err arm of the match on fetch_blocklist: failed is set, the cache is
\* read, and the source is skipped unless the cache holds a text for it
FetchErr ==
  /\ pc = "loop"
  /\ todo # <<>>
  /\ ~fetch_blocklist(Head(todo)).ok
  /\ \E readable \in BOOLEAN :
       LET url == Head(todo)
           got == get(cache, url, readable)
       IN /\ failed' = FailedAfterFetchError(failed, got.res)
          /\ log' = log \o <<Entry("fetch", url, "err", <<>>, <<>>),
                            Entry("get", url, got.res, got.text, <<>>)>>
          /\ IF got.res = "some"
             THEN /\ hosts' = got.text
                  /\ pc' = "parse"
                  /\ todo' = todo
             ELSE /\ hosts' = <<>>
                  /\ pc' = AfterCacheMiss
                  /\ todo' = Tail(todo)
  /\ UNCHANGED <<raw_whitelist, raw_blacklist, blocklists, remote, cache, cache0,
                 host_whitelist, merged, output>>

\* the for loop over parse_blocklist(&hosts), then the sleep, then the next source
ParseMerge ==
  /\ pc = "parse"
  /\ \E ys \in {parse_blocklist(hosts)} :
       /\ merged' = MergeHosts(merged, host_whitelist, ys)
       /\ failed' = (failed \/ HasParseError(ys))
       /\ log' = Append(log, Entry("parse", Head(todo), "ok", hosts, ys))
  /\ hosts' = <<>>
  /\ todo' = Tail(todo)
  /\ pc' = "loop"
  /\ UNCHANGED <<raw_whitelist, raw_blacklist, blocklists, remote, cache, cache0,
                 host_whitelist, output>>

\* after the loop: write_to, to the file or to stdout; an error of the write
\* is returned at once
WriteOutput ==
  /\ pc = "loop"
  /\ todo = <<>>
  /\ \E ok \in BOOLEAN :
       IF ok
       THEN output' = [written |-> TRUE, hosts |-> merged] /\ pc' = "written"
       ELSE output' = output /\ pc' = "output_error"
  /\ UNCHANGED <<raw_whitelist, raw_blacklist, blocklists, remote, cache, cache0,
                 host_whitelist, merged, failed, todo, hosts, log>>

\* the last expression of main: Err("Some blocklists failed") or Ok(())
Exit ==
  /\ pc = "written"
  /\ pc' = IF failed THEN "exit_failed" ELSE "exit_ok"
  /\ UNCHANGED <<raw_whitelist, raw_blacklist, blocklists, remote, cache, cache0,
                 host_whitelist, merged, failed, todo, hosts, output, log>>

Next == LoadConfig \/ FetchOk \/ FetchErr \/ ParseMerge \/ WriteOutput \/ Exit

Spec == Init /\ [][Next]_vars

\* main is one sequential thread: a step that can be taken is taken
FairSpec == Spec /\ WF_vars(Next)

-----------------------------------------------------------------------------
(* Runs over single texts: one source, and one string that is either the    *)
(* configuration's only whitelist entry or the body the source answers      *)

MaxSegs == 3

Segments ==
  { <<"\t">>, <<"\r", "\n">>, <<"#">>, <<"x">>, <<" ", "y">>, <<"/">>, <<"\"">>,
    Ip_unspecified, Ip_loopback, Ip_other, <<":", ":", "1">>, <<":", ":">> }

RECURSIVE Concats(_)
\* the strings made of at most n segments
Concats(n) ==
  IF n = 0 THEN {<<>>}
  ELSE LET shorter == Concats(n - 1) IN
       shorter \cup {p \o seg : p \in shorter, seg \in Segments}

LabStrings == Concats(MaxSegs)

ParseInit ==
  /\ raw_blacklist = {}
  /\ blocklists = {Url_c}
  /\ cache0 = <<>>
  /\ \E s \in LabStrings :
       \/ raw_whitelist = {s} /\ remote = [u \in {Url_c} |-> Err]
       \/ raw_whitelist = {} /\ remote = [u \in {Url_c} |-> Ok(s)]
  /\ Start

ParseSpec == ParseInit /\ [][Next]_vars

-----------------------------------------------------------------------------
(* What the properties below speak of *)

LogIdx == 1..Len(log)

Terminal == pc \in {"exit_ok", "exit_failed", "output_error"}

Exited == pc \in {"exit_ok", "exit_failed"}

\* the hosts among the results parse_blocklist yields for a text
ParsedHosts(text) ==
  LET ys == parse_blocklist(text) IN
  {ys[i].text : i \in {j \in 1..Len(ys) : ys[j].kind = "host"}}

\* the texts the run obtained: the bodies fetched and the texts Cache::get returned
ObtainedTexts ==
  {log[i].text : i \in {j \in LogIdx : \/ log[j].op = "fetch" /\ log[j].res = "ok"
                                       \/ log[j].op = "get" /\ log[j].res = "some"}}

FetchFailedFor(url) == \E i \in LogIdx : log[i].op = "fetch" /\ log[i].url = url /\ log[i].res = "err"

Proposed(host) == \E i \in LogIdx : log[i].op = "parse" /\ host \in ParsedHosts(log[i].text)

-----------------------------------------------------------------------------
\* C1: the set handed to the renderer is host_blacklist united with, for
\* every text obtained (fetched, or read from the cache), the hosts parsed
\* from it that are not in host_whitelist, and nothing else.
C1_MergedIsBlacklistPlusFiltered ==
  output.written =>
    /\ output.hosts = raw_blacklist
                      \cup UNION {ParsedHosts(t) \ host_whitelist : t \in ObtainedTexts}
    /\ \A u \in blocklists :
         fetch_blocklist(u).ok => fetch_blocklist(u).text \in ObtainedTexts

\* C1 witness: two sources both list y, a whitelisted x is listed by a
\* source, and a blacklisted w is listed by none; the output is {w, y}.
C1_Witness ==
  /\ output.written
  /\ \E i, j \in LogIdx :
       /\ log[i].op = "parse" /\ log[j].op = "parse" /\ log[i].url # log[j].url
       /\ Str_y \in ParsedHosts(log[i].text) \cap ParsedHosts(log[j].text)
  /\ Str_x \in host_whitelist /\ Proposed(Str_x)
  /\ Str_w \in raw_blacklist /\ ~Proposed(Str_w)
  /\ output.hosts = {Str_w, Str_y}

\* C2 as stated: no state has a whitelisted host in the merged set.
C2_NoWhitelistedHostInMerged ==
  /\ merged \cap host_whitelist = {}
  /\ output.hosts \cap host_whitelist = {}

\* C2 as amended: a whitelisted host is in the merged set only if it is in
\* host_blacklist; no source puts one there, however many propose it.
C2_WhitelistedOnlyFromBlacklist ==
  /\ (merged \cap host_whitelist) \subseteq raw_blacklist
  /\ (output.hosts \cap host_whitelist) \subseteq raw_blacklist

\* C2 witness: x is whitelisted and proposed by two sources and is not
\* written, while w, whitelisted and blacklisted, is.
C2_Witness ==
  /\ output.written
  /\ Str_x \in host_whitelist /\ Str_x \notin output.hosts
  /\ \E i, j \in LogIdx :
       /\ log[i].op = "parse" /\ log[j].op = "parse" /\ i # j
       /\ Str_x \in ParsedHosts(log[i].text) \cap ParsedHosts(log[j].text)
  /\ Str_w \in host_whitelist \cap raw_blacklist /\ Str_w \in output.hosts

C3_Inv ==
  /\ pc = "config" => ~failed
  /\ Terminal =>
       (failed <=> \/ \E u \in blocklists : ~fetch_blocklist(u).ok
                   \/ \E t \in ObtainedTexts : HasParseError(parse_blocklist(t)))
  /\ \A i \in LogIdx :
       (log[i].op = "insert" /\ log[i].res = "err") =>
          /\ i < Len(log) \/ pc = "parse"
          /\ i < Len(log) => log[i + 1].op = "parse" /\ log[i + 1].url = log[i].url

\* C3: failed starts false and is never reset; when the run ends it is true
\* exactly if a fetch failed or a processed text had a line in error; a
\* failed Cache::insert neither sets it nor stops the run.
C3_FailedFlag == [](C3_Inv) /\ [][failed => failed']_vars

\* C3 witness: a run that ends in success although a Cache::insert failed.
C3_Witness ==
  /\ pc = "exit_ok"
  /\ \E i \in LogIdx : log[i].op = "insert" /\ log[i].res = "err"

C4_Inv ==
  \A i \in LogIdx :
    log[i].op = "get" =>
      IF log[i].res = "some"
      THEN /\ failed
           /\ IF i = Len(log) THEN pc = "parse" /\ hosts = log[i].text
              ELSE log[i + 1] = Entry("parse", log[i].url, "ok", log[i].text,
                                      parse_blocklist(log[i].text))
           /\ (i < Len(log) \/ output.written) =>
                (ParsedHosts(log[i].text) \ host_whitelist) \subseteq merged
           /\ output.written =>
                (ParsedHosts(log[i].text) \ host_whitelist) \subseteq output.hosts
      ELSE /\ \A j \in LogIdx : log[j].op = "parse" => log[j].url # log[i].url
           /\ i = Len(log) => pc # "parse"
           /\ log[i].url \notin Range(todo)
           /\ i < Len(log) => log[i + 1].op = "fetch" /\ log[i + 1].url # log[i].url

\* the step that skips a source: a fetch failed and the cache gave no text
C4_Skip == pc = "loop" /\ pc' = "loop" /\ todo' # todo

\* C4: after a failed fetch, a text that Cache::get finds is parsed, its
\* hosts outside the whitelist reach the output and the run still counts as
\* failed; without such a text the source adds nothing and the next source
\* is taken.
C4_CacheFallback == [](C4_Inv) /\ [][C4_Skip => merged' = merged /\ todo' = Tail(todo)]_vars

\* C4 witness: a run that ended failed and wrote z, which only the cached
\* text of a source whose fetch failed lists, and that skipped another source.
C4_Witness ==
  /\ pc = "exit_failed"
  /\ \E i \in LogIdx : log[i].op = "get" /\ log[i].res = "some" /\ log[i].text = Text_z
  /\ \E i \in LogIdx : log[i].op = "get" /\ log[i].res = "none"
  /\ Str_z \in output.hosts

C5_Inv ==
  /\ pc \in {"config", "config_error", "loop", "parse", "written",
             "exit_ok", "exit_failed", "output_error"}
  /\ (pc \in {"written", "output_error"} \/ Exited) =>
       /\ todo = <<>>
       /\ \A u \in blocklists : \E i \in LogIdx : log[i].op = "fetch" /\ log[i].url = u
  /\ (pc = "written" \/ Exited) => output.written /\ output.hosts = merged
  /\ pc = "exit_failed" => failed
  /\ pc = "exit_ok" => ~failed
  /\ ~output.written => pc \in {"config", "config_error", "loop", "parse", "output_error"}

\* C5: once the configuration is loaded, every run gets to the write of the
\* output, after all sources; the whole merged set is written before the
\* process ends in failure (failed set) or success; only a failed write
\* ends a run without output.
C5_RunEndsAfterOutput == [](C5_Inv) /\ ((pc = "loop") ~> Terminal)

\* C5 witness: a fetch failed, a line did not parse, a cache write failed,
\* and the run still wrote its hosts and ended in failure.
C5_Witness ==
  /\ pc = "exit_failed"
  /\ output.written /\ output.hosts # {}
  /\ \E u \in blocklists : FetchFailedFor(u)
  /\ \E i \in LogIdx : log[i].op = "parse" /\ HasParseError(log[i].yielded)
  /\ \E i \in LogIdx : log[i].op = "insert" /\ log[i].res = "err"

-----------------------------------------------------------------------------
(* C6: the parser, stated from the tokens of a line *)

\* the line up to its first '#'
BeforeComment(line) ==
  LET hashes == {i \in 1..Len(line) : line[i] = "#"} IN
  IF hashes = {} THEN line
  ELSE SubSeq(line, 1, (CHOOSE i \in hashes : \A k \in hashes : i <= k) - 1)

\* the maximal runs of non-whitespace of a line, as pairs <<first, last>>
TokenSpans(line) ==
  {<<i, j>> \in (1..Len(line)) \X (1..Len(line)) :
     /\ i <= j
     /\ \A k \in i..j : ~IsWhitespace(line[k])
     /\ (i = 1 \/ IsWhitespace(line[i - 1]))
     /\ (j = Len(line) \/ IsWhitespace(line[j + 1]))}

\* the token that ends last
LastToken(line) ==
  LET sp == CHOOSE sp \in TokenSpans(line) : \A o \in TokenSpans(line) : o[2] <= sp[2]
  IN SubSeq(line, sp[1], sp[2])

\* the token that starts first
FirstToken(line) ==
  LET sp == CHOOSE sp \in TokenSpans(line) : \A o \in TokenSpans(line) : sp[1] <= o[1]
  IN SubSeq(line, sp[1], sp[2])

ExpectedOfLine(rawline) ==
  LET line == BeforeComment(rawline)
      n == Cardinality(TokenSpans(line))
  IN IF n = 0 THEN <<>>
     ELSE IF n > 2 THEN <<Result("no_match", line)>>
     ELSE IF n = 1 THEN <<try_from(LastToken(line))>>
     ELSE IF ~ParseIp[FirstToken(line)].ok THEN <<Result("malformed_ip", FirstToken(line))>>
     ELSE IF ParseIp[FirstToken(line)].loopback THEN <<>>
     ELSE IF ~ParseIp[FirstToken(line)].unspecified
     THEN <<Result("suspicious_ip", FirstToken(line))>>
     ELSE <<try_from(LastToken(line))>>

RECURSIVE ExpectedOfLines(_)
ExpectedOfLines(ls) ==
  IF ls = <<>> THEN <<>>
  ELSE ExpectedOfLine(Head(ls)) \o ExpectedOfLines(Tail(ls))

\* C6: parse_blocklist yields, line by line and in order: nothing for a
\* line that is empty or blank before its '#'; an error for a line of more
\* than two tokens; for two tokens, by the first: not an address, an error;
\* loopback, nothing; another address but the unspecified one, an error;
\* and for the unspecified address or a lone token, Host::try_from of the
\* last token.
C6_ParseBlocklistByLine ==
  \A i \in LogIdx :
    log[i].op = "parse" =>
      log[i].yielded = ExpectedOfLines(lines(log[i].text))

\* C6 witness: the text "0.0.0.0 y#" was parsed and yielded the host y.
C6_Witness ==
  \E i \in LogIdx :
    /\ log[i].op = "parse"
    /\ log[i].text = Ip_unspecified \o <<" ", "y", "#">>
    /\ log[i].yielded = <<Result("host", Str_y)>>

-----------------------------------------------------------------------------
\* what C7 says a valid host string is
C7_ValidHost(s) ==
  s # <<>> /\ Range(s) \cap {" ", "\t", "\n", "\r", "/", "\""} = {}

\* C7: Host::try_from succeeds exactly on the non-empty strings without
\* whitespace, '/' and '"', and the Host is the string unchanged: the
\* configuration loads exactly if all its host strings are such, its
\* whitelist is then the strings as given, and every token the parser
\* validates is a host exactly if it is such a string.
C7_HostValidation ==
  /\ pc = "config_error" <=>
       (pc # "config" /\ \E s \in raw_whitelist \cup raw_blacklist : ~C7_ValidHost(s))
  /\ pc \notin {"config", "config_error"} => host_whitelist = raw_whitelist
  /\ \A i \in LogIdx : \A k \in 1..Len(log[i].yielded) :
       LET y == log[i].yielded[k] IN
         /\ y.kind = "host" => C7_ValidHost(y.text)
         /\ y.kind = "invalid_host" => ~C7_ValidHost(y.text)

\* C7 witness: the whitelist string "::1 y" was refused, for its inner blank
C7_Witness ==
  /\ pc = "config_error"
  /\ raw_whitelist = {<<":", ":", "1", " ", "y">>}

-----------------------------------------------------------------------------
\* C8: a text that Cache::get returns for a source was stored for that
\* source: no Cache::insert for another source wrote the file it is read from.
C8_GetReturnsOwnText ==
  \A i \in LogIdx :
    (log[i].op = "get" /\ log[i].res = "some") =>
      \A j \in 1..(i - 1) :
        (log[j].op = "insert" /\ log[j].res = "ok" /\ log[j].url # log[i].url) =>
          cache_path(log[j].url) # cache_path(log[i].url)

-----------------------------------------------------------------------------
\* the cache operations that follow the fetch at log[i], up to the next fetch
C9_CacheOpsAfter(i) ==
  {j \in LogIdx : /\ j > i
                  /\ log[j].op \in {"insert", "get"}
                  /\ \A k \in (i + 1)..j : log[k].op # "fetch"}

\* C9: each source is fetched once; the fetch is followed by one cache
\* operation, for the same source: an insert of the body as fetched if the
\* fetch succeeded, a get if it failed; and no cache file is ever removed.
C9_OneFetchOneCacheOp ==
  /\ \A i, j \in LogIdx :
       (log[i].op = "fetch" /\ log[j].op = "fetch" /\ log[i].url = log[j].url) => i = j
  /\ \A i \in LogIdx : log[i].op = "fetch" =>
       /\ log[i].url \in blocklists
       /\ i < Len(log)
       /\ C9_CacheOpsAfter(i) = {i + 1}
       /\ log[i + 1].url = log[i].url
       /\ log[i].res = "ok" <=> log[i + 1].op = "insert"
       /\ log[i].res = "err" <=> log[i + 1].op = "get"
       /\ log[i].res = "ok" =>
            log[i].text = fetch_blocklist(log[i].url).text /\ log[i + 1].text = log[i].text
  /\ \A i \in LogIdx : log[i].op \in {"insert", "get"} => i > 1 /\ log[i - 1].op = "fetch"
  /\ \A i \in LogIdx : (log[i].op = "insert" /\ log[i].res = "ok") =>
       /\ cache_path(log[i].url) \in DOMAIN cache
       /\ (\A j \in LogIdx : j > i => log[j].op # "insert"
                                    \/ cache_path(log[j].url) # cache_path(log[i].url)
                                    \/ log[j].res # "ok")
            => cache[cache_path(log[i].url)] = log[i].text
  /\ Terminal => \A u \in blocklists : \E i \in LogIdx : log[i].op = "fetch" /\ log[i].url = u
  /\ DOMAIN cache0 \subseteq DOMAIN cache

\* C9 witness: a run over two sources, one fetched and stored, one failed
\* and looked up, with a file of the cache directory left as it was found.
C9_Witness ==
  /\ Terminal
  /\ Cardinality(blocklists) = 2
  /\ \E i \in LogIdx : log[i].op = "insert" /\ log[i].res = "ok"
  /\ \E i \in LogIdx : log[i].op = "get"
  /\ \E f \in DOMAIN cache0 : cache[f] = cache0[f]

-----------------------------------------------------------------------------
(* C10: the run replayed in another order of the sources *)

WroteFor(url) == \E i \in LogIdx : log[i].op = "insert" /\ log[i].url = url /\ log[i].res = "ok"

ReadFailedFor(url) == \E i \in LogIdx : log[i].op = "get" /\ log[i].url = url /\ log[i].res = "err"

RECURSIVE Replay(_, _, _, _)
\* merged and failed after the loop has visited the sources in the given
\* order, from the merged set m, the flag f and the cache directory files,
\* each source answering, and its cache file behaving, as in the run
Replay(order, m, f, files) ==
  IF order = <<>> THEN <<m, f>>
  ELSE LET url == Head(order)
           got == get(files, url, ~ReadFailedFor(url))
       IN IF fetch_blocklist(url).ok
          THEN LET ys == parse_blocklist(fetch_blocklist(url).text) IN
               Replay(Tail(order), MergeHosts(m, host_whitelist, ys), f \/ HasParseError(ys),
                      insert(files, url, fetch_blocklist(url).text, WroteFor(url)))
          ELSE IF got.res = "some"
          THEN LET ys == parse_blocklist(got.text) IN
               Replay(Tail(order), MergeHosts(m, host_whitelist, ys), TRUE, files)
          ELSE Replay(Tail(order), m, TRUE, files)

Orders(S) ==
  {o \in [1..Cardinality(S) -> S] : \A i, j \in 1..Cardinality(S) : o[i] = o[j] => i = j}

\* C10: the merged set and the failed flag with which the run ends are
\* those of every order of the sources, the configuration, the cache
\* directory found and each source's answer being the same.
C10_AnyOrderSameResult ==
  (pc = "written" \/ Exited) =>
    \A o \in Orders(blocklists) : Replay(o, raw_blacklist, FALSE, cache0) = <<merged, failed>>

=============================================================================
